---- MODULE Spec2Model ----
(***************************************************************************)
(* Model of improver/blending/calculate_weights_and_blend.py: the          *)
(* WeightAndBlend plugin.  One instance is constructed and then invoked    *)
(* any number of times.  The collaborators (merger, weight calculators,    *)
(* geometry helpers, spatial refiner, amender, rebadger, blend-time        *)
(* attacher, weighted reducer) are black boxes: every call is appended to  *)
(* the call log with the arguments the orchestrator hands over, and the    *)
(* response of each (its return value or its failure) is part of the       *)
(* invocation's input.                                                      *)
(***************************************************************************)
EXTENDS Integers, Sequences, FiniteSets, TLC

VARIABLES
    pc,        \* position of the single thread of control
    self,      \* the attributes of the WeightAndBlend instance
    ctor,      \* the arguments given to the constructor
    inp,       \* the arguments of the current process() call and the collaborators' responses
    cube,      \* local variable cube of process()
    weights,   \* local variable weights of process()
    result,    \* local variable result of process() / _update_metadata_only()
    calls,     \* collaborator calls made by the current invocation, in order
    warned,    \* number of warnings.warn() calls of the current invocation
    outcome,   \* "running", "return" or the error the invocation ended with
    past_merge,\* some invocation of this instance got past the merge step
    mode,      \* "free": every invocation draws fresh inputs; "repeat": the first inputs are replayed
    prev       \* in "repeat" mode, the summary of the first completed invocation

vars == <<pc, self, ctor, inp, cube, weights, result, calls, warned, outcome,
          past_merge, mode, prev>>

----------------------------------------------------------------------------
(* Bounds *)

\* largest number of points a coordinate of the merged cube carries
MaxPoints == 2

----------------------------------------------------------------------------
(* Values *)

None == "None"

\* names given as blend_coord at construction
BlendCoordNames == {"forecast_reference_time", "model_id", "model", "realization"}

\* method tags given as wts_calc_method at construction
MethodTags == {"dict", "linear", "nonlinear", "quadratic"}

WeightingCoords == {None, "forecast_period"}

\* method-specific parameter values given at construction
MethodParams ==
    { [wts_dict |-> None, y0val |-> None, ynval |-> None, cval |-> None,
       inverse_ordering |-> FALSE],
      [wts_dict |-> "wts_dict", y0val |-> "1.0", ynval |-> "0.0", cval |-> "0.85",
       inverse_ordering |-> TRUE] }

CycleTimes == {None, "20201104T0000Z"}

AttributesDicts == {None, "source=updated"}

ModelIdAttrs == {None, "mosg__model_configuration"}

\* default of the fuzzy_length argument of process()
DefaultFuzzyLength == 20000

\* the coordinates every forecast cube carries
TimeCoords == {"forecast_period", "forecast_reference_time"}

\* x in s for python strings
Contains(sub, s) ==
    \E i \in 1..(Len(s) - Len(sub) + 1) : SubSeq(s, i, i + Len(sub) - 1) = sub

\* A cube: coords maps each coordinate name to its number of points; the
\* remaining fields are the data mask, the grid kind and the metadata the
\* metadata utilities write.
MakeCube(dim, n, masked, equal_area) ==
    [kind         |-> "cube",
     coords       |-> [c \in TimeCoords \cup ({dim} \ {None}) |->
                          IF c = dim THEN n ELSE 1],
     masked       |-> masked,
     equal_area   |-> equal_area,
     attributes   |-> None,
     rebadged     |-> "no",
     deprecation  |-> {},
     blend_time   |-> None]

Cubes ==
    { MakeCube(dim, n, m, ea) :
        dim \in BlendCoordNames \cup {None}, n \in 1..MaxPoints,
        m \in BOOLEAN, ea \in BOOLEAN }

NoCube == MakeCube(None, 1, FALSE, TRUE)

NoWeights == [kind |-> "undefined"]

NoResult == [kind |-> "undefined"]

NoPrev == [kind |-> "undefined"]

\* collaborators whose failure is part of the invocation's input (the
\* equal-area check fails exactly on a grid that is not equal-area)
FailPoints == {"none", "merger", "weights", "distance", "refiner", "amender",
               "rebadger", "reducer"}

Inputs ==
    { i \in [cycletime       : CycleTimes,
             model_id_attr   : ModelIdAttrs,
             spatial_weights : BOOLEAN,
             fuzzy_length    : {DefaultFuzzyLength},
             attributes_dict : AttributesDicts,
             merged          : Cubes,
             fail            : FailPoints] :
        i.fail = "merger" => i.merged = NoCube }

NoInput ==
    [cycletime |-> None, model_id_attr |-> None, spatial_weights |-> FALSE,
     fuzzy_length |-> DefaultFuzzyLength, attributes_dict |-> None,
     merged |-> NoCube, fail |-> "none"]

NoSelf == [blend_coord |-> None, wts_calc_method |-> None, weighting_coord |-> None,
           params |-> [unset |-> TRUE]]

NoCtor == [blend_coord |-> None, wts_calc_method |-> None, weighting_coord |-> None,
           params |-> [unset |-> TRUE]]

----------------------------------------------------------------------------
(* Initial state: nothing constructed yet *)

InitCommon ==
    /\ pc = "new"
    /\ self = NoSelf
    /\ ctor = NoCtor
    /\ inp = NoInput
    /\ cube = NoCube
    /\ weights = NoWeights
    /\ result = NoResult
    /\ calls = << >>
    /\ warned = 0
    /\ outcome = "none"
    /\ past_merge = FALSE
    /\ prev = NoPrev

Init == InitCommon /\ mode = "free"

InitRepeat == InitCommon /\ mode = "repeat"

----------------------------------------------------------------------------
(* WeightAndBlend.__init__ *)

M_RecognisedMethod_no_else(m) == TRUE

\* the method tags for which a branch of the if/elif chain exists
RecognisedMethod(m) == m \in {"dict", "linear", "nonlinear"}

M_StoredWeightingCoord_always(m, wc) == wc

\* the weighting_coord attribute after construction
StoredWeightingCoord(m, wc) == IF m = "dict" THEN wc ELSE None

\* the method-specific attributes the selected branch sets
StoredParams(m, p) ==
    IF m = "dict" THEN [wts_dict |-> p.wts_dict]
    ELSE IF m = "linear" THEN [y0val |-> p.y0val, ynval |-> p.ynval]
    ELSE IF m = "nonlinear" THEN [cval |-> p.cval, inverse_ordering |-> p.inverse_ordering]
    ELSE [unset |-> TRUE]

WeightAndBlend_init ==
    /\ pc = "new"
    /\ \E b \in BlendCoordNames, m \in MethodTags, wc \in WeightingCoords,
          p \in MethodParams :
         /\ ctor' = [blend_coord |-> b, wts_calc_method |-> m,
                     weighting_coord |-> wc, params |-> p]
         /\ self' = [blend_coord |-> b, wts_calc_method |-> m,
                     weighting_coord |-> StoredWeightingCoord(m, wc),
                     params |-> StoredParams(m, p)]
         /\ IF RecognisedMethod(m)
            THEN pc' = "idle" /\ outcome' = "none"
            ELSE pc' = "init_failed"
                 /\ outcome' = "ValueError: Weights calculation method unrecognised"
    /\ UNCHANGED <<inp, cube, weights, result, calls, warned, past_merge, mode, prev>>

----------------------------------------------------------------------------
(* Helpers of the invocation *)

Call(fn, coord, args) == [fn |-> fn, coord |-> coord, args |-> args]

\* an exception leaves process(): nothing is returned
Raise(err) ==
    /\ pc' = "done"
    /\ outcome' = err
    /\ result' = NoResult

\* what the current invocation did, kept for the comparison with its replay
Summary == [inp |-> inp, calls |-> calls, outcome |-> outcome, result |-> result]

----------------------------------------------------------------------------
(* WeightAndBlend.process: merge *)

process_merge ==
    /\ pc = "idle"
    /\ \E i \in (IF prev # NoPrev THEN {prev.inp} ELSE Inputs) :
         /\ inp' = i
         /\ calls' = << Call("MergeCubesForWeightedBlending", self.blend_coord,
                             [weighting_coord |-> self.weighting_coord,
                              model_id_attr   |-> i.model_id_attr,
                              cycletime       |-> i.cycletime]) >>
         /\ IF i.fail = "merger"
            THEN /\ Raise("error raised by MergeCubesForWeightedBlending")
                 /\ UNCHANGED <<cube, past_merge>>
            ELSE /\ cube' = i.merged
                 /\ pc' = "rename"
                 /\ outcome' = "running"
                 /\ result' = NoResult
                 /\ past_merge' = TRUE
    /\ UNCHANGED <<self, ctor, weights, warned, mode, prev>>

----------------------------------------------------------------------------
(* WeightAndBlend.process: rewrite of the blend coordinate *)

M_RenamedBlendCoord_no_rewrite(b) == b

M_RenamedBlendCoord_always(b) == "model_id"

\* the value of self.blend_coord after the rewrite
RenamedBlendCoord(b) == IF Contains("model", b) THEN "model_id" ELSE b

process_rename ==
    /\ pc = "rename"
    /\ self' = [self EXCEPT !.blend_coord = RenamedBlendCoord(self.blend_coord)]
    /\ pc' = "check"
    /\ UNCHANGED <<ctor, inp, cube, weights, result, calls, warned, outcome,
                   past_merge, mode, prev>>

----------------------------------------------------------------------------
(* WeightAndBlend.process: the degenerate check *)

\* coord_names = [coord.name() for coord in cube.coords()]
CoordNames(c) == DOMAIN c.coords

M_IsDegenerate_absent_only(b, c) == b \notin DOMAIN c.coords

\* the blend coordinate is absent or has exactly one point
IsDegenerate(b, c) == b \notin CoordNames(c) \/ c.coords[b] = 1

process_check ==
    /\ pc = "check"
    /\ pc' = IF IsDegenerate(self.blend_coord, cube) THEN "metadata" ELSE "weights"
    /\ UNCHANGED <<self, ctor, inp, cube, weights, result, calls, warned, outcome,
                   past_merge, mode, prev>>

----------------------------------------------------------------------------
(* WeightAndBlend._update_metadata_only *)

M_update_metadata_copy_always_amends ==
    /\ pc = "metadata"
    /\ calls' = Append(calls, Call("amend_attributes", None,
                                   [cube |-> cube,
                                    attributes_dict |-> inp.attributes_dict]))
    /\ IF inp.fail = "amender"
       THEN Raise("error raised by amend_attributes")
       ELSE /\ result' = [cube EXCEPT !.attributes = inp.attributes_dict]
            /\ pc' = "rebadge"
            /\ UNCHANGED outcome
    /\ UNCHANGED <<self, ctor, inp, cube, weights, warned, past_merge, mode, prev>>

\* result = cube.copy(), then amend_attributes(result, attributes_dict) if a
\* map was supplied
update_metadata_copy ==
    /\ pc = "metadata"
    /\ IF inp.attributes_dict # None
       THEN /\ calls' = Append(calls, Call("amend_attributes", None,
                                           [cube |-> cube,
                                            attributes_dict |-> inp.attributes_dict]))
            /\ IF inp.fail = "amender"
               THEN Raise("error raised by amend_attributes")
               ELSE /\ result' = [cube EXCEPT !.attributes = inp.attributes_dict]
                    /\ pc' = "rebadge"
                    /\ UNCHANGED outcome
       ELSE /\ result' = cube
            /\ pc' = "rebadge"
            /\ UNCHANGED <<calls, outcome>>
    /\ UNCHANGED <<self, ctor, inp, cube, weights, warned, past_merge, mode, prev>>

\* (result,) = rebadge_forecasts_as_latest_cycle([result], cycletime)
update_metadata_rebadge ==
    /\ pc = "rebadge"
    /\ calls' = Append(calls, Call("rebadge_forecasts_as_latest_cycle", None,
                                   [cubes |-> <<result>>, cycletime |-> inp.cycletime]))
    /\ IF inp.fail = "rebadger"
       THEN Raise("error raised by rebadge_forecasts_as_latest_cycle")
       ELSE /\ result' = [result EXCEPT !.rebadged =
                             IF inp.cycletime = None THEN "latest" ELSE inp.cycletime]
            /\ pc' = "stamp"
            /\ UNCHANGED outcome
    /\ UNCHANGED <<self, ctor, inp, cube, weights, warned, past_merge, mode, prev>>

M_StampsBlendTime_cycle_only(b) == b = "forecast_reference_time"

M_StampsBlendTime_always(b) == TRUE

\* the blend coordinates for which cycle / model blending metadata is written
StampsBlendTime(b) == b \in {"forecast_reference_time", "model_id"}

\* the coordinates that receive the deprecation_message attribute
DeprecatedCoords == {"forecast_period", "forecast_reference_time"}

update_metadata_stamp ==
    /\ pc = "stamp"
    /\ IF StampsBlendTime(self.blend_coord)
       THEN IF inp.cycletime # None
            THEN /\ calls' = Append(calls, Call("add_blend_time", None,
                                                [cycletime |-> inp.cycletime]))
                 /\ result' = [result EXCEPT !.deprecation = DeprecatedCoords,
                                             !.blend_time = inp.cycletime]
                 /\ pc' = "return"
                 /\ UNCHANGED outcome
            ELSE /\ Raise("ValueError: Current cycle time is required for cycle and model blending")
                 /\ UNCHANGED calls
       ELSE /\ pc' = "return"
            /\ UNCHANGED <<result, calls, outcome>>
    /\ UNCHANGED <<self, ctor, inp, cube, weights, warned, past_merge, mode, prev>>

----------------------------------------------------------------------------
(* WeightAndBlend._calculate_blending_weights *)

M_ConfigCoord_verbatim(b) == b

\* the config_coord_name handed to ChooseWeightsLinear
ConfigCoord(b) == IF Contains("model", b) THEN "model_configuration" ELSE b

M_WeightsCall_no_nonlinear(s) ==
    IF s.wts_calc_method = "dict"
    THEN Call("ChooseWeightsLinear", ConfigCoord(s.blend_coord),
              [weighting_coord |-> s.weighting_coord, wts_dict |-> s.params.wts_dict])
    ELSE IF s.wts_calc_method = "linear"
    THEN Call("ChooseDefaultWeightsLinear", s.blend_coord,
              [y0val |-> s.params.y0val, ynval |-> s.params.ynval])
    ELSE Call("none", None, [unset |-> TRUE])

\* the weight calculator the method tag selects, with its arguments
WeightsCall(s) ==
    IF s.wts_calc_method = "dict"
    THEN Call("ChooseWeightsLinear", ConfigCoord(s.blend_coord),
              [weighting_coord |-> s.weighting_coord, wts_dict |-> s.params.wts_dict])
    ELSE IF s.wts_calc_method = "linear"
    THEN Call("ChooseDefaultWeightsLinear", s.blend_coord,
              [y0val |-> s.params.y0val, ynval |-> s.params.ynval])
    ELSE IF s.wts_calc_method = "nonlinear"
    THEN Call("ChooseDefaultWeightsNonLinear", s.blend_coord,
              [cval |-> s.params.cval, inverse_ordering |-> s.params.inverse_ordering])
    ELSE Call("none", None, [unset |-> TRUE])

M_AfterWeights_always_masked(spatial_weights) == "masked"

\* after the weights: spatial refinement if requested, else the mask test
AfterWeights(spatial_weights) == IF spatial_weights THEN "spatial" ELSE "masked"

calculate_blending_weights ==
    /\ pc = "weights"
    /\ LET c == WeightsCall(self) IN
       IF c.fn = "none"
       THEN /\ Raise("UnboundLocalError: weights")
            /\ UNCHANGED <<calls, weights>>
       ELSE /\ calls' = Append(calls, c)
            /\ IF inp.fail = "weights"
               THEN Raise("error raised by " \o c.fn) /\ UNCHANGED weights
               ELSE /\ weights' = [kind |-> "1d", by |-> c]
                    /\ pc' = AfterWeights(inp.spatial_weights)
                    /\ UNCHANGED <<result, outcome>>
    /\ UNCHANGED <<self, ctor, inp, cube, warned, past_merge, mode, prev>>

----------------------------------------------------------------------------
(* WeightAndBlend._update_spatial_weights *)

\* the value distance_to_number_of_grid_cells(cube, fuzzy_length,
\* return_int=False) stands for
GridCells(c, fuzzy_length) ==
    [fn |-> "distance_to_number_of_grid_cells", fuzzy_length |-> fuzzy_length,
     return_int |-> FALSE]

M_update_spatial_check_unchecked ==
    /\ pc = "spatial"
    /\ calls' = Append(calls, Call("check_if_grid_is_equal_area", None, [cube |-> cube]))
    /\ pc' = "distance"
    /\ UNCHANGED <<self, ctor, inp, cube, weights, result, warned, outcome,
                   past_merge, mode, prev>>

\* check_if_grid_is_equal_area(cube)
update_spatial_check ==
    /\ pc = "spatial"
    /\ calls' = Append(calls, Call("check_if_grid_is_equal_area", None, [cube |-> cube]))
    /\ IF ~cube.equal_area
       THEN Raise("error raised by check_if_grid_is_equal_area")
       ELSE pc' = "distance" /\ UNCHANGED <<result, outcome>>
    /\ UNCHANGED <<self, ctor, inp, cube, weights, warned, past_merge, mode, prev>>

M_update_spatial_distance_swallowed ==
    /\ pc = "distance"
    /\ calls' = Append(calls, Call("distance_to_number_of_grid_cells", None,
                                   [cube |-> cube, fuzzy_length |-> inp.fuzzy_length,
                                    return_int |-> FALSE]))
    /\ pc' = "refine"
    /\ UNCHANGED <<self, ctor, inp, cube, weights, result, warned, outcome,
                   past_merge, mode, prev>>

\* grid_cells = distance_to_number_of_grid_cells(cube, fuzzy_length, return_int=False)
update_spatial_distance ==
    /\ pc = "distance"
    /\ calls' = Append(calls, Call("distance_to_number_of_grid_cells", None,
                                   [cube |-> cube, fuzzy_length |-> inp.fuzzy_length,
                                    return_int |-> FALSE]))
    /\ IF inp.fail = "distance"
       THEN Raise("error raised by distance_to_number_of_grid_cells")
       ELSE pc' = "refine" /\ UNCHANGED <<result, outcome>>
    /\ UNCHANGED <<self, ctor, inp, cube, weights, warned, past_merge, mode, prev>>

\* weights = SpatiallyVaryingWeightsFromMask(self.blend_coord,
\*                fuzzy_length=grid_cells)(cube, weights)
update_spatial_refine ==
    /\ pc = "refine"
    /\ calls' = Append(calls, Call("SpatiallyVaryingWeightsFromMask", self.blend_coord,
                                   [fuzzy_length |-> GridCells(cube, inp.fuzzy_length),
                                    cube |-> cube, weights |-> weights]))
    /\ IF inp.fail = "refiner"
       THEN Raise("error raised by SpatiallyVaryingWeightsFromMask") /\ UNCHANGED weights
       ELSE /\ weights' = [kind |-> "spatial", by |-> weights.by]
            /\ pc' = "blend"
            /\ UNCHANGED <<result, outcome>>
    /\ UNCHANGED <<self, ctor, inp, cube, warned, past_merge, mode, prev>>

----------------------------------------------------------------------------
(* WeightAndBlend.process: masked data, weighted blend, return *)

\* np.ma.is_masked(cube.data)
IsMasked(c) == c.masked

M_MaskedWarnings_silent(c) == 0

\* number of warnings the elif branch emits
MaskedWarnings(c) == IF IsMasked(c) THEN 1 ELSE 0

process_masked ==
    /\ pc = "masked"
    /\ warned' = warned + MaskedWarnings(cube)
    /\ pc' = "blend"
    /\ UNCHANGED <<self, ctor, inp, cube, weights, result, calls, outcome,
                   past_merge, mode, prev>>

M_BlendArgs_no_cycletime ==
    [cube |-> cube, weights |-> weights, cycletime |-> None,
     attributes_dict |-> inp.attributes_dict]

\* the arguments the reducer is called with
BlendArgs == [cube |-> cube, weights |-> weights, cycletime |-> inp.cycletime,
              attributes_dict |-> inp.attributes_dict]

\* the cube WeightedBlendAcrossWholeDimension(coord)(...) returns
Blended(coord, args) == [kind |-> "blended", coord |-> coord, args |-> args]

process_blend ==
    /\ pc = "blend"
    /\ calls' = Append(calls, Call("WeightedBlendAcrossWholeDimension",
                                   self.blend_coord, BlendArgs))
    /\ IF inp.fail = "reducer"
       THEN Raise("error raised by WeightedBlendAcrossWholeDimension")
       ELSE /\ result' = Blended(self.blend_coord, BlendArgs)
            /\ pc' = "return"
            /\ UNCHANGED outcome
    /\ UNCHANGED <<self, ctor, inp, cube, weights, warned, past_merge, mode, prev>>

process_return ==
    /\ pc = "return"
    /\ pc' = "done"
    /\ outcome' = "return"
    /\ UNCHANGED <<self, ctor, inp, cube, weights, result, calls, warned,
                   past_merge, mode, prev>>

\* the call is over: the caller has the outcome, the locals of process() are gone
process_exit ==
    /\ pc = "done"
    /\ pc' = "idle"
    /\ prev' = IF mode = "repeat" /\ prev = NoPrev THEN Summary ELSE prev
    /\ inp' = NoInput
    /\ cube' = NoCube
    /\ weights' = NoWeights
    /\ result' = NoResult
    /\ calls' = << >>
    /\ warned' = 0
    /\ outcome' = "none"
    /\ UNCHANGED <<self, ctor, past_merge, mode>>

----------------------------------------------------------------------------
(* Specifications *)

Next ==
    \/ WeightAndBlend_init
    \/ process_merge
    \/ process_rename
    \/ process_check
    \/ update_metadata_copy
    \/ update_metadata_rebadge
    \/ update_metadata_stamp
    \/ calculate_blending_weights
    \/ update_spatial_check
    \/ update_spatial_distance
    \/ update_spatial_refine
    \/ process_masked
    \/ process_blend
    \/ process_return
    \/ process_exit

\* any sequence of invocations, each with its own inputs
Spec == Init /\ [][Next]_vars

\* the first invocation's inputs are given again to every later invocation
SpecRepeat == InitRepeat /\ [][Next]_vars

TypeOK ==
    /\ pc \in {"new", "init_failed", "idle", "rename", "check", "metadata", "rebadge",
               "stamp", "weights", "spatial", "distance", "refine", "masked", "blend",
               "return", "done"}
    /\ warned \in 0..1
    /\ mode \in {"free", "repeat"}
    /\ past_merge \in BOOLEAN

----------------------------------------------------------------------------
(* Vocabulary of the properties *)

WeightCalculators == {"ChooseWeightsLinear", "ChooseDefaultWeightsLinear",
                      "ChooseDefaultWeightsNonLinear"}

UnrecognisedError == "ValueError: Weights calculation method unrecognised"

CycleTimeError == "ValueError: Current cycle time is required for cycle and model blending"

GeometryError == "error raised by check_if_grid_is_equal_area"

\* positions in the call log of the calls to one of fns
CallsTo(fns) == {k \in 1..Len(calls) : calls[k].fn \in fns}

\* the current invocation got past the merge and past the rewrite
PastRename ==
    pc \in {"check", "metadata", "rebadge", "stamp", "weights", "spatial", "distance",
            "refine", "masked", "blend", "return"}
    \/ (pc = "done" /\ inp.fail # "merger")

\* the current invocation is over and its merge had succeeded
Finished == pc = "done" /\ inp.fail # "merger"

\* the name the construction-time name resolves to
ResolvedName ==
    IF Contains("model", ctor.blend_coord) THEN "model_id" ELSE ctor.blend_coord

\* the resolved blend coordinate is absent from the merged cube or has one point
DegenerateCase ==
    ResolvedName \notin DOMAIN cube.coords \/ cube.coords[ResolvedName] = 1

----------------------------------------------------------------------------
(* C1 *)

\* C1: construction with a method tag other than "dict", "linear" or
\* "nonlinear" ends with the ValueError and the instance is never used (no
\* invocation ever starts on it); construction with one of the three tags
\* succeeds for every value of the method-specific parameters.
C1_ConstructionValidatesMethod ==
    pc # "new" =>
        IF ctor.wts_calc_method \in {"dict", "linear", "nonlinear"}
        THEN pc # "init_failed" /\ outcome # UnrecognisedError
        ELSE /\ pc = "init_failed"
             /\ outcome = UnrecognisedError
             /\ calls = << >>
             /\ ~past_merge

C1_Witness ==
    /\ pc = "init_failed"
    /\ ctor.wts_calc_method = "quadratic"
    /\ ctor.params.wts_dict # None

----------------------------------------------------------------------------
(* C2 *)

\* C2: when the resolved blend coordinate is absent from the merged cube or
\* has exactly one point, no weight calculator, spatial refiner or weighted
\* reducer is called in the invocation, and what process returns is the copy
\* of the merged cube with the attributes amended and the forecast rebadged.
C2_DegenerateIsMetadataOnly ==
    (PastRename /\ DegenerateCase) =>
        /\ CallsTo(WeightCalculators \cup {"SpatiallyVaryingWeightsFromMask",
                                           "WeightedBlendAcrossWholeDimension"}) = {}
        /\ weights = NoWeights
        /\ (pc = "done" /\ outcome = "return") =>
              /\ result.kind = "cube"
              /\ result.coords = cube.coords
              /\ result.masked = cube.masked
              /\ result.equal_area = cube.equal_area
              /\ result.attributes = inp.attributes_dict
              /\ result.rebadged # "no"
              /\ CallsTo({"rebadge_forecasts_as_latest_cycle"}) # {}

C2_Witness ==
    /\ pc = "done"
    /\ outcome = "return"
    /\ inp.fail # "merger"
    /\ ResolvedName \in DOMAIN cube.coords
    /\ cube.coords[ResolvedName] = 1
    /\ ResolvedName = "realization"
    /\ inp.attributes_dict # None

----------------------------------------------------------------------------
(* C3 *)

\* C3 as stated: when the equal-area check fails, no weight calculator has
\* been called in the invocation.
C3_Original_NoWeightsBeforeGeometryError ==
    outcome = GeometryError => CallsTo(WeightCalculators) = {}

\* C3 amended: with spatial weights requested on a grid that is not
\* equal-area, an invocation that takes the full path and whose weight
\* calculator returns fails with the geometry error; the weight calculator
\* has been called exactly once, before the equal-area check, and neither
\* the distance conversion, the spatial refiner nor the reducer is called.
C3_GeometryErrorAfterWeights ==
    /\ (Finished /\ inp.spatial_weights /\ ~cube.equal_area /\ ~DegenerateCase
           /\ inp.fail # "weights") =>
          /\ outcome = GeometryError
          /\ result = NoResult
    /\ outcome = GeometryError =>
          /\ Len(calls) = 3
          /\ calls[1].fn = "MergeCubesForWeightedBlending"
          /\ calls[2].fn \in WeightCalculators
          /\ calls[3].fn = "check_if_grid_is_equal_area"
          /\ inp.spatial_weights /\ ~cube.equal_area

C3_Witness ==
    /\ pc = "done"
    /\ outcome = GeometryError
    /\ inp.spatial_weights
    /\ ~cube.equal_area
    /\ CallsTo(WeightCalculators) = {2}

----------------------------------------------------------------------------
(* C4 *)

\* C4 as stated: an invocation that repeats the inputs of an earlier one on
\* the same instance hands the same blend coordinate name to the merger,
\* makes the same collaborator calls and ends with the same outcome and
\* result, whatever the construction-time blend coordinate name is.
C4_Original_RepeatedInvocationIsIdentical ==
    (pc = "done" /\ prev # NoPrev /\ inp = prev.inp) =>
        /\ calls[1].coord = prev.calls[1].coord
        /\ calls = prev.calls
        /\ outcome = prev.outcome
        /\ result = prev.result

----------------------------------------------------------------------------
(* C5 *)

----------------------------------------------------------------------------
(* C6 *)

\* C6: in the metadata-only branch, with the resolved blend coordinate
\* "forecast_reference_time" or "model_id" and a cycletime supplied, the
\* returned cube has had add_blend_time applied with that cycletime and
\* carries the deprecation message on forecast_period and on
\* forecast_reference_time; with any other blend coordinate the cube gets
\* neither and no configuration error is raised, also when cycletime is None.
C6_StampingFollowsBlendCoord ==
    (Finished /\ DegenerateCase) =>
        IF ResolvedName \in {"forecast_reference_time", "model_id"}
        THEN inp.cycletime # None =>
               /\ (inp.fail \notin {"amender", "rebadger"} => outcome = "return")
               /\ outcome = "return" =>
                    /\ result.blend_time = inp.cycletime
                    /\ result.deprecation = {"forecast_period", "forecast_reference_time"}
                    /\ \E k \in CallsTo({"add_blend_time"}) :
                           calls[k].args.cycletime = inp.cycletime
        ELSE /\ outcome # CycleTimeError
             /\ (inp.fail \notin {"amender", "rebadger"} => outcome = "return")
             /\ outcome = "return" =>
                    /\ result.blend_time = None
                    /\ result.deprecation = {}
                    /\ CallsTo({"add_blend_time"}) = {}

C6_Witness ==
    /\ pc = "done"
    /\ outcome = "return"
    /\ inp.fail # "merger"
    /\ DegenerateCase
    /\ ResolvedName = "model_id"
    /\ result.kind = "cube"
    /\ result.blend_time = "20201104T0000Z"

----------------------------------------------------------------------------
(* C7 *)

\* C7: on the full path, masked merged data with spatial_weights off gives
\* exactly one warning and the invocation goes on to the weighted reduction
\* and returns its output; the same data with spatial_weights on gives no
\* warning; no invocation both refines the weights spatially and warns.
C7_MaskedAdvisory ==
    /\ (Finished /\ ~DegenerateCase /\ cube.masked /\ inp.fail # "weights") =>
          IF inp.spatial_weights
          THEN warned = 0
          ELSE /\ warned = 1
               /\ Cardinality(CallsTo({"WeightedBlendAcrossWholeDimension"})) = 1
               /\ inp.fail # "reducer" =>
                     /\ outcome = "return"
                     /\ result = [kind |-> "blended", coord |-> ResolvedName,
                                  args |-> calls[Len(calls)].args]
    /\ ~(warned > 0
         /\ CallsTo({"check_if_grid_is_equal_area", "distance_to_number_of_grid_cells",
                     "SpatiallyVaryingWeightsFromMask"}) # {})

C7_Witness ==
    /\ pc = "done"
    /\ outcome = "return"
    /\ cube.masked
    /\ ~inp.spatial_weights
    /\ warned = 1
    /\ result.kind = "blended"

----------------------------------------------------------------------------
(* C8 *)

\* C8: every call of the dictionary-driven weight calculator is given the
\* configuration coordinate "model_configuration" when the blend coordinate
\* name contains "model" (the construction-time name as well as "model_id",
\* the name process has rewritten it to by then), and the blend coordinate
\* name itself when the name does not contain "model".
C8_DictConfigCoord ==
    \A k \in CallsTo({"ChooseWeightsLinear"}) :
        /\ ctor.wts_calc_method = "dict"
        /\ calls[k].coord =
              IF Contains("model", ctor.blend_coord)
              THEN "model_configuration" ELSE ctor.blend_coord
        /\ calls[k].coord =
              IF Contains("model", self.blend_coord)
              THEN "model_configuration" ELSE self.blend_coord

C8_Witness ==
    /\ ctor.blend_coord = "model"
    /\ self.blend_coord = "model_id"
    /\ Len(calls) = 2
    /\ calls[2].fn = "ChooseWeightsLinear"
    /\ calls[2].coord = "model_configuration"

----------------------------------------------------------------------------
(* C9 *)

\* the weights the reducer is to receive: the calculator's, spatially
\* refined when spatial weights were requested
ExpectedWeights ==
    [kind |-> IF inp.spatial_weights THEN "spatial" ELSE "1d", by |-> calls[2]]

\* C9: when the merged cube has the resolved blend coordinate with two or
\* more points, the weight calculator is called exactly once, as the first
\* call after the merge; an invocation in which no collaborator fails then
\* calls the weighted reducer exactly once, last, with the merged cube, the
\* (possibly refined) weights, the cycletime and the attribute map, and
\* returns the reducer's output; process itself calls neither the attribute
\* amender nor the cycle rebadger nor the blend-time attacher on this path.
C9_FullPath ==
    (Finished /\ ~DegenerateCase) =>
        /\ CallsTo(WeightCalculators) = {2}
        /\ CallsTo({"amend_attributes", "rebadge_forecasts_as_latest_cycle",
                    "add_blend_time"}) = {}
        /\ Cardinality(CallsTo({"WeightedBlendAcrossWholeDimension"})) <= 1
        /\ (inp.fail = "none" /\ (inp.spatial_weights => cube.equal_area)) =>
               outcome = "return"
        /\ outcome = "return" =>
               /\ CallsTo({"WeightedBlendAcrossWholeDimension"}) = {Len(calls)}
               /\ calls[Len(calls)].coord = ResolvedName
               /\ calls[Len(calls)].args =
                     [cube |-> inp.merged, weights |-> ExpectedWeights,
                      cycletime |-> inp.cycletime,
                      attributes_dict |-> inp.attributes_dict]
               /\ result = [kind |-> "blended", coord |-> ResolvedName,
                            args |-> calls[Len(calls)].args]

C9_Witness ==
    /\ pc = "done"
    /\ outcome = "return"
    /\ result.kind = "blended"
    /\ inp.spatial_weights
    /\ inp.cycletime # None
    /\ inp.attributes_dict # None
    /\ cube.coords[self.blend_coord] >= 2

----------------------------------------------------------------------------
(* C10 *)

\* C10 as stated: every invocation that gets past the merge with spatial
\* weights not requested and masked merged data emits the advisory, the
\* metadata-only branch included.
C10_Original_AdvisoryOnEveryPath ==
    (Finished /\ ~inp.spatial_weights /\ cube.masked) => warned >= 1

\* C10 amended: with spatial weights not requested and masked merged data,
\* the advisory is emitted (once) exactly by the invocations that take the
\* full path and whose weight calculator returns; an invocation that takes
\* the metadata-only branch emits none.
C10_AdvisoryOnFullPathOnly ==
    (Finished /\ ~inp.spatial_weights /\ cube.masked) =>
        warned = IF ~DegenerateCase /\ inp.fail # "weights" THEN 1 ELSE 0

C10_Witness ==
    /\ pc = "done"
    /\ outcome = "return"
    /\ ~inp.spatial_weights
    /\ cube.masked
    /\ result.kind = "cube"
    /\ warned = 0

----------------------------------------------------------------------------
(* C11 *)

\* the first invocation on the instance is under way or just over
FirstInvocation == mode = "repeat" /\ prev = NoPrev /\ Len(calls) >= 1

\* C11: in the first invocation on a fresh instance the merger is built with
\* the construction-time blend coordinate name; the stored name is still the
\* construction-time name when the merge has returned (or failed) and is
\* rewritten only then; from the degenerate check on, the branch taken, the
\* stamping test, the linear and nonlinear weight calculators, the spatial
\* refiner and the weighted reducer all use "model_id" when the
\* construction-time name contains "model", and the construction-time name
\* otherwise.
C11_RewriteAfterMerge ==
    FirstInvocation =>
        /\ calls[1].fn = "MergeCubesForWeightedBlending"
        /\ calls[1].coord = ctor.blend_coord
        /\ (pc = "rename" \/ (pc = "done" /\ inp.fail = "merger")) =>
              self.blend_coord = ctor.blend_coord
        /\ PastRename =>
              /\ self.blend_coord = ResolvedName
              /\ pc \in {"metadata", "rebadge", "stamp"} => DegenerateCase
              /\ pc \in {"weights", "spatial", "distance", "refine", "masked", "blend"}
                    => ~DegenerateCase
              /\ CallsTo({"add_blend_time"}) # {} =>
                    ResolvedName \in {"forecast_reference_time", "model_id"}
              /\ \A k \in CallsTo({"ChooseDefaultWeightsLinear",
                                   "ChooseDefaultWeightsNonLinear",
                                   "SpatiallyVaryingWeightsFromMask",
                                   "WeightedBlendAcrossWholeDimension"}) :
                    calls[k].coord = ResolvedName

C11_Witness ==
    /\ FirstInvocation
    /\ pc = "done"
    /\ outcome = "return"
    /\ ctor.blend_coord = "model"
    /\ ctor.wts_calc_method = "nonlinear"
    /\ calls[1].coord = "model"
    /\ Len(calls) = 6
    /\ calls[2].coord = "model_id"
    /\ calls[5].coord = "model_id"
    /\ calls[6].coord = "model_id"

----------------------------------------------------------------------------
(* C12 *)

\* the calculator that belongs to a method tag
CalculatorOf(m) ==
    IF m = "dict" THEN "ChooseWeightsLinear"
    ELSE IF m = "linear" THEN "ChooseDefaultWeightsLinear"
    ELSE "ChooseDefaultWeightsNonLinear"

\* C12: on an instance that construction accepted, in every invocation, the
\* weight selection calls exactly one weight calculator, the one that belongs
\* to the method tag given at construction, and the weights it hands back
\* are that calculator's result; the selection never ends without weights
\* because no branch matched.
C12_OneMatchingCalculator ==
    /\ outcome # "UnboundLocalError: weights"
    /\ CallsTo({"none"}) = {}
    /\ pc \notin {"new", "init_failed"} =>
          self.wts_calc_method \in {"dict", "linear", "nonlinear"}
    /\ Cardinality(CallsTo(WeightCalculators)) <= 1
    /\ \A k \in CallsTo(WeightCalculators) :
          calls[k].fn = CalculatorOf(ctor.wts_calc_method)
    /\ (PastRename /\ ~DegenerateCase /\ pc \notin {"check", "weights"}) =>
          /\ CallsTo(WeightCalculators) = {2}
          /\ inp.fail # "weights" => (weights.kind # "undefined" /\ weights.by = calls[2])
    /\ pc \in {"spatial", "masked"} => weights = [kind |-> "1d", by |-> calls[2]]

C12_Witness ==
    /\ past_merge
    /\ pc = "masked"
    /\ ctor.wts_calc_method = "nonlinear"
    /\ calls[2].fn = "ChooseDefaultWeightsNonLinear"
    /\ self.blend_coord = "model_id"
    /\ ctor.blend_coord = "model"
    /\ weights.kind = "1d"

----------------------------------------------------------------------------
(* C13 *)

\* the collaborator call at position k of the log is one that fails
FailedCall(k) ==
    LET fn == calls[k].fn IN
    \/ fn = "MergeCubesForWeightedBlending" /\ inp.fail = "merger"
    \/ fn \in WeightCalculators /\ inp.fail = "weights"
    \/ fn = "check_if_grid_is_equal_area" /\ ~calls[k].args.cube.equal_area
    \/ fn = "distance_to_number_of_grid_cells" /\ inp.fail = "distance"
    \/ fn = "SpatiallyVaryingWeightsFromMask" /\ inp.fail = "refiner"
    \/ fn = "amend_attributes" /\ inp.fail = "amender"
    \/ fn = "rebadge_forecasts_as_latest_cycle" /\ inp.fail = "rebadger"
    \/ fn = "WeightedBlendAcrossWholeDimension" /\ inp.fail = "reducer"

\* C13: a failing collaborator call is the last call of its invocation: the
\* invocation is over with that collaborator's error and without a result;
\* and no collaborator is called twice in one invocation.
C13_CollaboratorErrorsPropagate ==
    /\ \A k \in 1..Len(calls) :
          FailedCall(k) =>
             /\ k = Len(calls)
             /\ pc = "done"
             /\ outcome = "error raised by " \o calls[k].fn
             /\ result = NoResult
    /\ \A j, k \in 1..Len(calls) : j # k => calls[j].fn # calls[k].fn

C13_Witness ==
    /\ pc = "done"
    /\ outcome = "error raised by distance_to_number_of_grid_cells"
    /\ Len(calls) = 4
    /\ result = NoResult

----------------------------------------------------------------------------
(* C14 *)

\* C14: after construction the instance holds the parameters of the selected
\* method and no others; the stored weighting coordinate is the supplied one
\* in dict mode and None in linear and nonlinear mode, whatever was supplied,
\* and that stored value is what every merger receives.
C14_StoredParameters ==
    pc # "new" =>
        /\ self.weighting_coord =
              IF ctor.wts_calc_method = "dict" THEN ctor.weighting_coord ELSE None
        /\ ctor.wts_calc_method = "dict" =>
              self.params = [wts_dict |-> ctor.params.wts_dict]
        /\ ctor.wts_calc_method = "linear" =>
              self.params = [y0val |-> ctor.params.y0val, ynval |-> ctor.params.ynval]
        /\ ctor.wts_calc_method = "nonlinear" =>
              self.params = [cval |-> ctor.params.cval,
                             inverse_ordering |-> ctor.params.inverse_ordering]
        /\ \A k \in CallsTo({"MergeCubesForWeightedBlending"}) :
              calls[k].args.weighting_coord =
                 IF ctor.wts_calc_method = "dict" THEN ctor.weighting_coord ELSE None

C14_Witness ==
    /\ ctor.wts_calc_method = "linear"
    /\ ctor.weighting_coord = "forecast_period"
    /\ past_merge
    /\ pc = "rename"
    /\ calls[1].args.weighting_coord = None
    /\ self.weighting_coord = None

----------------------------------------------------------------------------
(* C15 *)

\* C15: the metadata-only path leaves the merged cube as the merger returned
\* it; it calls the attribute amender if and only if an attribute map was
\* supplied, then the rebadger exactly once with a list of one cube and the
\* requested cycletime, and only then does the stamping; the ValueError for
\* a missing cycletime is raised when amender and rebadger have run.
C15_MetadataOnlyOrder ==
    (PastRename /\ DegenerateCase) =>
        LET amend   == CallsTo({"amend_attributes"})
            rebadge == CallsTo({"rebadge_forecasts_as_latest_cycle"})
            stamp   == CallsTo({"add_blend_time"})
            n       == IF inp.attributes_dict # None THEN 1 ELSE 0
        IN
        /\ cube = inp.merged
        /\ amend \subseteq {2}
        /\ amend # {} => inp.attributes_dict # None
        /\ pc \in {"rebadge", "stamp", "return"} => (amend # {} <=> inp.attributes_dict # None)
        /\ rebadge \subseteq {2 + n}
        /\ pc \in {"stamp", "return"} => rebadge = {2 + n}
        /\ \A k \in rebadge :
              /\ Len(calls[k].args.cubes) = 1
              /\ calls[k].args.cycletime = inp.cycletime
              /\ calls[k].args.cubes[1].attributes = inp.attributes_dict
        /\ stamp \subseteq {3 + n}
        /\ outcome \in {"return", CycleTimeError} =>
              /\ rebadge = {2 + n}
              /\ (amend # {} <=> inp.attributes_dict # None)
        /\ outcome = CycleTimeError => Len(calls) = 2 + n

C15_Witness ==
    /\ pc = "done"
    /\ outcome = CycleTimeError
    /\ inp.attributes_dict # None
    /\ Len(calls) = 3
    /\ calls[2].fn = "amend_attributes"
    /\ calls[3].fn = "rebadge_forecasts_as_latest_cycle"
    /\ cube = inp.merged

----------------------------------------------------------------------------
(* C16 *)

\* no invocation is under way
Quiescent == pc \in {"idle", "done"}

\* C16 as stated: when an invocation is over, the stored blend coordinate is
\* "model_id" exactly when the construction-time name contains "model" and
\* at least one invocation got past the merge step.
C16_Original_ModelIdIffPastMerge ==
    pc = "done" =>
        (self.blend_coord = "model_id"
            <=> (Contains("model", ctor.blend_coord) /\ past_merge))

\* C16 amended: after any sequence of invocations the stored blend coordinate
\* is the construction-time name or "model_id"; it is "model_id" exactly when
\* the construction-time name is "model_id" already, or contains "model" and
\* at least one invocation got past the merge step; as long as every merge
\* has failed it is the construction-time name; once "model_id" it stays
\* "model_id"; the method tag, the weighting coordinate and the method
\* parameters are those of construction.
C16_StoredBlendCoord ==
    /\ pc # "new" =>
          /\ self.blend_coord \in {ctor.blend_coord, "model_id"}
          /\ self.wts_calc_method = ctor.wts_calc_method
          /\ self.weighting_coord =
                IF ctor.wts_calc_method = "dict" THEN ctor.weighting_coord ELSE None
          /\ ctor.wts_calc_method = "dict" =>
                self.params = [wts_dict |-> ctor.params.wts_dict]
          /\ ctor.wts_calc_method = "linear" =>
                self.params = [y0val |-> ctor.params.y0val, ynval |-> ctor.params.ynval]
          /\ ctor.wts_calc_method = "nonlinear" =>
                self.params = [cval |-> ctor.params.cval,
                               inverse_ordering |-> ctor.params.inverse_ordering]
          /\ ~past_merge => self.blend_coord = ctor.blend_coord
    /\ Quiescent =>
          (self.blend_coord = "model_id"
              <=> \/ ctor.blend_coord = "model_id"
                  \/ (Contains("model", ctor.blend_coord) /\ past_merge))

C16_Witness ==
    /\ pc = "done"
    /\ inp.fail = "merger"
    /\ past_merge
    /\ ctor.blend_coord = "model"
    /\ self.blend_coord = "model_id"
    /\ calls[1].coord = "model_id"

====
